---- MODULE Spec2Model ----
(***************************************************************************)
(* Daily work-time and pause computation of the worktime tracker:          *)
(* calculateDailyStatsJS and secondsToTimeStr of frontend/public/utils.js. *)
(*                                                                         *)
(* A booking is a record                                                   *)
(*   action        : "in" or "out"                                         *)
(*   timestamp_iso : Null, or <<date, hours, minutes, seconds>> (local     *)
(*                   time, date counted in days since 1970-01-01)          *)
(*   time          : Null, or <<hours, minutes>>, the "HH:MM" string as    *)
(*                   split(':').map(Number) reads it                       *)
(* Null, an absent field, is the empty tuple.                              *)
(*                                                                         *)
(* Further parts: the what-if projection and the settings form of app.js,  *)
(* the milestone display of ui-components.js and the service worker sw.js. *)
(***************************************************************************)
EXTENDS Integers, Sequences, FiniteSets, TLC

VARIABLES
    bookings,       \* the event list handed to the calculator (appState.dayData.bookings)
    targetSeconds,  \* appState.settings.target_work_seconds
    options,        \* the options object of the call
    result,         \* the value the last call of calculateDailyStatsJS returned
    locals,         \* the local variables of that call
    pc,             \* which call has been made
    prevResult,     \* the value the call before the last one returned
    whatIf,         \* planned departure time and the stats computed for it
    rendered,       \* argument and value of the last secondsToTimeStr call
    settingsSync,   \* settings form: last PUT body, server copy, appState.settings
    timeInfo,       \* appState.timeInfo: time_to_6h, time_to_9h, time_to_10h
    milestones,     \* the three texts renderTimeInfoMilestones displays
    sw,             \* service worker: phase, cache storage, pending puts, last response
    tier,           \* argument and value of the last statutory_break_seconds lookup
    app             \* the page: appState, timers, network state, requests in flight

calcVars == <<bookings, targetSeconds, options, result, locals, pc>>

callVars == <<prevResult, whatIf, rendered>>

pageVars == <<settingsSync, timeInfo, milestones>>

appVars == <<tier, app>>

vars == <<bookings, targetSeconds, options, result, locals, pc, prevResult, whatIf,
          rendered, settingsSync, timeInfo, milestones, sw, tier, app>>

Null == <<>>

(* JavaScript numbers: the integers, and NaN, which every arithmetic        *)
(* operation propagates and every comparison answers with false.           *)

NaN == -999999999

IsNaN(x) == x = NaN

Max(a, b) == IF IsNaN(a) \/ IsNaN(b) THEN NaN ELSE IF a >= b THEN a ELSE b

Min(a, b) == IF IsNaN(a) \/ IsNaN(b) THEN NaN ELSE IF a <= b THEN a ELSE b

Plus(a, b) == IF IsNaN(a) \/ IsNaN(b) THEN NaN ELSE a + b

Minus(a, b) == IF IsNaN(a) \/ IsNaN(b) THEN NaN ELSE a - b

Times(a, b) == IF IsNaN(a) \/ IsNaN(b) THEN NaN ELSE a * b

LessEq(a, b) == ~IsNaN(a) /\ ~IsNaN(b) /\ a <= b

Greater(a, b) == ~IsNaN(a) /\ ~IsNaN(b) /\ a > b

(* ------------------------------ bounds --------------------------------- *)

\* longest event list handed to the calculator in an arbitrary order
MaxLen == 3

\* most stamps of one day recorded in chronological order
MaxStamps == 4

\* largest magnitude handed to secondsToTimeStr (one day)
MaxSeconds == 86400

\* longest session whose pause tier is looked up, in seconds (12 h)
MaxGross == 43200

\* most async functions of the page waiting for a response at the same time
MaxTasks == 2

(* ------------------------------ inputs --------------------------------- *)

IsoDates == {1}

\* clock times (hours, minutes, seconds) of bookings that carry timestamp_iso
IsoClock == {<<6, 0, 0>>, <<7, 0, 0>>, <<12, 0, 30>>, <<19, 0, 0>>, <<20, 0, 0>>}

\* "HH:MM" strings of legacy bookings that carry no timestamp_iso
LegacyClock == {<<7, 0>>, <<12, 0>>}

IsoBooking(a, d, c) ==
    [action |-> a,
     timestamp_iso |-> <<d, c[1], c[2], c[3]>>,
     time |-> <<c[1], c[2]>>]

LegacyBooking(a, t) == [action |-> a, timestamp_iso |-> Null, time |-> t]

\* time strings that are no HH:MM, as split(':').map(Number) reads them:
\* "ab:cd" gives two NaN, "7" gives one number and no minutes
UnparsedTimes == {<<NaN, NaN>>, <<7>>}

Actions == {"in", "out"}

AnyBooking ==
    {IsoBooking(a, d, c) : a \in Actions, d \in IsoDates, c \in IsoClock}
    \cup {LegacyBooking(a, t) : a \in Actions, t \in LegacyClock \cup {Null}}

\* clock times of the stamps of one working day
DayClock ==
    {<<8, 0, 0>>, <<12, 0, 0>>, <<12, 30, 0>>, <<12, 40, 0>>, <<14, 0, 0>>,
     <<14, 15, 0>>, <<14, 30, 0>>, <<16, 0, 0>>, <<17, 0, 0>>, <<17, 10, 0>>,
     <<17, 15, 0>>, <<17, 30, 0>>, <<18, 0, 0>>, <<20, 0, 0>>}

Targets == {0, 28080}

\* the work start and work end times of the settings, as "HH:MM" strings
CutoffSettings == {<<<<6, 30>>, <<18, 30>>>>, <<<<8, 0>>, <<17, 0>>>>}

\* the options object the callers build from appState
OptionSets ==
    {[paola |-> p, work_start_time_str |-> c[1], work_end_time_str |-> c[2]] :
        p \in BOOLEAN, c \in CutoffSettings}

(* ---------------------------- secondsToTimeStr -------------------------- *)

Abs(n) == IF n < 0 THEN -n ELSE n

\* n.toString().padStart(2, '0')
PadStart2(n) == IF n < 10 THEN "0" \o ToString(n) ELSE ToString(n)

\* mutant: the minutes are rounded up instead of cut off
secondsToTimeStrRoundedUp(seconds) ==
    LET isNegative == seconds < 0
        absSeconds == Abs(seconds)
        hours == absSeconds \div 3600
        minutes == ((absSeconds % 3600) + 59) \div 60
        timeStr == PadStart2(hours) \o ":" \o PadStart2(minutes)
    IN  IF isNegative THEN "-" \o timeStr ELSE timeStr

secondsToTimeStr(seconds) ==
    IF IsNaN(seconds) THEN "NaN:NaN"
    ELSE LET isNegative == seconds < 0
             absSeconds == Abs(seconds)
             hours == absSeconds \div 3600
             minutes == (absSeconds % 3600) \div 60
             timeStr == PadStart2(hours) \o ":" \o PadStart2(minutes)
         IN  IF isNegative THEN "-" \o timeStr ELSE timeStr

(* -------------------------- calculateDailyStatsJS ----------------------- *)

\* element i of a split time string; a missing element is undefined, NaN
\* in arithmetic
Field(t, i) == IF i <= Len(t) THEN t[i] ELSE NaN

\* the sort comparator's key: new Date(timestamp_iso), or the time string on
\* 1970-01-01 (00:00 when the booking has no time string either); a string
\* that is no HH:MM gives an invalid Date, NaN
SortTime(b) ==
    IF b.timestamp_iso # Null
    THEN b.timestamp_iso[1] * 86400 + b.timestamp_iso[2] * 3600
         + b.timestamp_iso[3] * 60 + b.timestamp_iso[4]
    ELSE LET t == IF b.time # Null THEN b.time ELSE <<0, 0>>
         IN  Plus(Times(Field(t, 1), 3600), Times(Field(t, 2), 60))

\* mutant: a sort that moves a booking in front of the bookings of equal time
NotAfterStrict(a, b) ==
    LET d == Minus(SortTime(a), SortTime(b)) IN ~IsNaN(d) /\ d < 0

\* the comparator's answer timeA - timeB puts b after a; NaN counts as 0
NotAfter(a, b) ==
    LET d == Minus(SortTime(a), SortTime(b)) IN IsNaN(d) \/ d <= 0

RECURSIVE InsertSorted(_, _)
\* b goes after every element whose key is not larger (the sort is stable)
InsertSorted(s, b) ==
    IF s = <<>> THEN <<b>>
    ELSE IF NotAfter(s[Len(s)], b) THEN Append(s, b)
    ELSE Append(InsertSorted(SubSeq(s, 1, Len(s) - 1), b), s[Len(s)])

RECURSIVE SortBookings(_)
SortBookings(s) ==
    IF s = <<>> THEN <<>>
    ELSE InsertSorted(SortBookings(SubSeq(s, 1, Len(s) - 1)), s[Len(s)])

getSecondsOfDay(booking) ==
    IF booking.timestamp_iso # Null
    THEN booking.timestamp_iso[2] * 3600 + booking.timestamp_iso[3] * 60
         + booking.timestamp_iso[4]
    ELSE LET t == IF booking.time # Null THEN booking.time ELSE <<0, 0>>
         IN  Plus(Times(Field(t, 1), 3600), Times(Field(t, 2), 60))

cutoff_start_seconds == 23400

cutoff_end_seconds == 66600

SIX_HOURS_IN_SECONDS == 21600

SIX_HOURS_30_MIN_IN_SECONDS == 23400

NINE_HOURS_IN_SECONDS == 32400

NINE_HOURS_15_MIN_IN_SECONDS == 33300

paola_pause_seconds == 3000

TEN_HOURS_SECONDS == 36000

\* mutant: the first stamp is not clamped to the start cutoff
effective_first_stamp_unclamped(sortedBookings) ==
    getSecondsOfDay(sortedBookings[1])

effective_first_stamp_seconds(sortedBookings) ==
    Max(getSecondsOfDay(sortedBookings[1]), cutoff_start_seconds)

effective_last_stamp_seconds(sortedBookings) ==
    Min(getSecondsOfDay(sortedBookings[Len(sortedBookings)]), cutoff_end_seconds)

\* mutant: a negative duration is not raised to 0
gross_session_unguarded(sortedBookings) ==
    effective_last_stamp_seconds(sortedBookings)
    - effective_first_stamp_seconds(sortedBookings)

gross_session_seconds(sortedBookings) ==
    Max(0, Minus(effective_last_stamp_seconds(sortedBookings),
                 effective_first_stamp_seconds(sortedBookings)))

RECURSIVE manual_pause_loop_unclipped(_, _)
\* mutant: the gaps are not clipped to the effective window
manual_pause_loop_unclipped(sortedBookings, i) ==
    IF i < 1 THEN 0
    ELSE LET rest == manual_pause_loop_unclipped(sortedBookings, i - 1)
             pause_start == getSecondsOfDay(sortedBookings[i])
             pause_end == getSecondsOfDay(sortedBookings[i + 1])
         IN  IF sortedBookings[i].action = "out" /\ sortedBookings[i + 1].action = "in"
                /\ pause_end > pause_start
             THEN rest + (pause_end - pause_start)
             ELSE rest

RECURSIVE manual_pause_loop(_, _)
\* the for loop over i = 0 .. length - 2, here from the pair (i, i+1) downwards
manual_pause_loop(sortedBookings, i) ==
    IF i < 1 THEN 0
    ELSE LET rest == manual_pause_loop(sortedBookings, i - 1)
             pause_start == getSecondsOfDay(sortedBookings[i])
             pause_end == getSecondsOfDay(sortedBookings[i + 1])
             effective_pause_start ==
                 Max(pause_start, effective_first_stamp_seconds(sortedBookings))
             effective_pause_end ==
                 Min(pause_end, effective_last_stamp_seconds(sortedBookings))
         IN  IF sortedBookings[i].action = "out" /\ sortedBookings[i + 1].action = "in"
                /\ Greater(effective_pause_end, effective_pause_start)
             THEN rest + (effective_pause_end - effective_pause_start)
             ELSE rest

manual_pause_seconds(sortedBookings) ==
    manual_pause_loop(sortedBookings, Len(sortedBookings) - 1)

\* mutant: the 45 minute tier is missing
statutory_break_without_45(gross) ==
    IF gross <= SIX_HOURS_IN_SECONDS THEN 0
    ELSE IF gross <= SIX_HOURS_30_MIN_IN_SECONDS THEN gross - SIX_HOURS_IN_SECONDS
    ELSE 30 * 60

\* mutant: the two linear ramps are replaced by steps
statutory_break_steps(gross) ==
    IF gross <= SIX_HOURS_IN_SECONDS THEN 0
    ELSE IF gross <= NINE_HOURS_IN_SECONDS THEN 30 * 60
    ELSE 45 * 60

statutory_break_seconds(gross) ==
    IF LessEq(gross, SIX_HOURS_IN_SECONDS) THEN 0
    ELSE IF LessEq(gross, SIX_HOURS_30_MIN_IN_SECONDS) THEN gross - SIX_HOURS_IN_SECONDS
    ELSE IF LessEq(gross, NINE_HOURS_IN_SECONDS) THEN 30 * 60
    ELSE IF LessEq(gross, NINE_HOURS_15_MIN_IN_SECONDS)
         THEN (30 * 60) + (gross - NINE_HOURS_IN_SECONDS)
    ELSE 45 * 60

\* mutant: the supplemental pause ignores the manual pause
paola_active_always(opts, manual) == opts.paola

paola_active(opts, manual) == opts.paola /\ manual = 0

total_deducted_pause_seconds(opts, manual, statutory) ==
    LET deducted == Max(manual, statutory)
    IN  IF paola_active(opts, manual) THEN Max(deducted, paola_pause_seconds)
        ELSE deducted

\* mutant: the ten hour cap is missing
net_worked_uncapped(gross, deducted) == Max(0, Minus(gross, deducted))

capped_net_worked_seconds(gross, deducted) ==
    Min(Max(0, Minus(gross, deducted)), TEN_HOURS_SECONDS)

\* mutant: the statutory tier is looked up on gross minus manual pause
CallLocalsTierOnNet(bks, opts) ==
    LET sortedBookings == SortBookings(bks)
        gross == gross_session_seconds(sortedBookings)
        manual == manual_pause_seconds(sortedBookings)
        statutory == statutory_break_seconds(gross - manual)
    IN  [sortedBookings |-> sortedBookings,
         effective_first_stamp_seconds |-> effective_first_stamp_seconds(sortedBookings),
         effective_last_stamp_seconds |-> effective_last_stamp_seconds(sortedBookings),
         gross_session_seconds |-> gross,
         manual_pause_seconds |-> manual,
         statutory_break_seconds |-> statutory,
         total_deducted_pause_seconds |->
             total_deducted_pause_seconds(opts, manual, statutory)]

\* the local variables of one call on a non-empty list
CallLocals(bks, opts) ==
    LET sortedBookings == SortBookings(bks)
        gross == gross_session_seconds(sortedBookings)
        manual == manual_pause_seconds(sortedBookings)
        statutory == statutory_break_seconds(gross)
    IN  [sortedBookings |-> sortedBookings,
         effective_first_stamp_seconds |-> effective_first_stamp_seconds(sortedBookings),
         effective_last_stamp_seconds |-> effective_last_stamp_seconds(sortedBookings),
         gross_session_seconds |-> gross,
         manual_pause_seconds |-> manual,
         statutory_break_seconds |-> statutory,
         total_deducted_pause_seconds |->
             total_deducted_pause_seconds(opts, manual, statutory)]

\* the locals before any call, and of a call that returns early
NoLocals ==
    [sortedBookings |-> <<>>,
     effective_first_stamp_seconds |-> 0,
     effective_last_stamp_seconds |-> 0,
     gross_session_seconds |-> 0,
     manual_pause_seconds |-> 0,
     statutory_break_seconds |-> 0,
     total_deducted_pause_seconds |-> 0]

\* mutant: the early return reports the default target as missing time
EmptyResultUnderTarget ==
    [worked |-> "00:00", pause |-> "00:00", overtime |-> "-07:48",
     netSeconds |-> 0, pauseSeconds |-> 0, overtimeSeconds |-> -28080]

EmptyResult ==
    [worked |-> "00:00", pause |-> "00:00", overtime |-> "00:00",
     netSeconds |-> 0, pauseSeconds |-> 0, overtimeSeconds |-> 0]

\* mutant: the overtime is taken as target minus net
calculateDailyStatsFlipped(bks, target, opts) ==
    IF bks = <<>> THEN EmptyResult
    ELSE LET l == CallLocals(bks, opts)
             net == capped_net_worked_seconds(l.gross_session_seconds,
                                              l.total_deducted_pause_seconds)
             overtime_seconds == Minus(target, net)
         IN  [worked |-> secondsToTimeStr(net),
              pause |-> secondsToTimeStr(l.total_deducted_pause_seconds),
              overtime |-> secondsToTimeStr(overtime_seconds),
              netSeconds |-> net,
              pauseSeconds |-> l.total_deducted_pause_seconds,
              overtimeSeconds |-> overtime_seconds]

calculateDailyStatsJS(bks, target, opts) ==
    IF bks = <<>> THEN EmptyResult
    ELSE LET l == CallLocals(bks, opts)
             net == capped_net_worked_seconds(l.gross_session_seconds,
                                              l.total_deducted_pause_seconds)
             overtime_seconds == Minus(net, target)
         IN  [worked |-> secondsToTimeStr(net),
              pause |-> secondsToTimeStr(l.total_deducted_pause_seconds),
              overtime |-> secondsToTimeStr(overtime_seconds),
              netSeconds |-> net,
              pauseSeconds |-> l.total_deducted_pause_seconds,
              overtimeSeconds |-> overtime_seconds]

(* ------------------------------ the calls ------------------------------- *)

\* no planned departure entered, nothing shown in what-if-result
NoWhatIf == [plannedTime |-> Null, stats |-> <<>>]

\* secondsToTimeStr not called yet
NoRendered == [seconds |-> 0, timeStr |-> ""]

\* no settings submitted, none stored, none loaded
NoSettingsSync == [put |-> <<>>, server |-> <<>>, app |-> <<>>]

\* appState.timeInfo not loaded
NoTimeInfo == [time_to_6h |-> "", time_to_9h |-> "", time_to_10h |-> ""]

\* the time info page not rendered
NoMilestones == <<>>

\* the service worker script not registered, cache storage empty
NoServiceWorker ==
    [phase |-> "none", caches |-> {}, pending |-> {}, response |-> <<>>]

\* no pause tier looked up yet
NoTier == [gross |-> 0, pause |-> 0]

\* the users of the switcher; the first is the one logged in
Users == {"anna", "ben"}

\* the routes of the router ('manual' stands for the routes without loads)
Pages == {"dashboard", "sessions", "timeinfo", "flextime", "settings", "manual"}

\* appState and timers as the scripts declare them, before init() runs;
\* intervals are the running setInterval timers, tasks the async functions
\* waiting for the answers to their calls, server the stamp status the
\* server keeps per user, dom what the last render() drew
NoApp ==
    [booted |-> FALSE,
     currentPage |-> "dashboard",
     isOnline |-> TRUE,
     hidden |-> FALSE,
     loggedInUser |-> "anna",
     activeUser |-> "anna",
     isLoading |-> FALSE,
     status |-> [user |-> "", status |-> "out"],
     dayData |-> "",
     weekData |-> "",
     sessions |-> "",
     timeInfo |-> "",
     settings |-> "",
     overtimeData |-> "",
     allUsers |-> "",
     timers |-> [liveUpdate |-> 0, timeInfoLiveUpdate |-> 0],
     intervals |-> {},
     tasks |-> {},
     initSignalAborted |-> FALSE,
     server |-> [u \in Users |-> IF u = "anna" THEN "out" ELSE "in"],
     dom |-> [page |-> "", stampEnabled |-> FALSE, switcher |-> FALSE]]

Init ==
    /\ bookings = <<>>
    /\ targetSeconds \in Targets
    /\ options \in OptionSets
    /\ result = EmptyResult
    /\ locals = NoLocals
    /\ pc = "input"
    /\ prevResult = EmptyResult
    /\ whatIf = NoWhatIf
    /\ rendered = NoRendered
    /\ settingsSync = NoSettingsSync
    /\ timeInfo = NoTimeInfo
    /\ milestones = NoMilestones
    /\ sw = NoServiceWorker
    /\ tier = NoTier
    /\ app = NoApp

\* the caller's list gains one booking, at any position in time
AddBooking(b) ==
    /\ pc = "input"
    /\ Len(bookings) < MaxLen
    /\ bookings' = Append(bookings, b)
    /\ UNCHANGED <<targetSeconds, options, result, locals, pc>>
    /\ UNCHANGED <<callVars, pageVars, sw>>
    /\ UNCHANGED appVars

\* a stamp of the running day: later than every booking recorded so far
Stamp(a, c) ==
    /\ pc = "input"
    /\ Len(bookings) < MaxStamps
    /\ LET b == IsoBooking(a, 1, c)
       IN  /\ \A i \in 1..Len(bookings) : SortTime(bookings[i]) < SortTime(b)
           /\ bookings' = Append(bookings, b)
    /\ UNCHANGED <<targetSeconds, options, result, locals, pc>>
    /\ UNCHANGED <<callVars, pageVars, sw>>
    /\ UNCHANGED appVars

\* calculateDailyStatsJS(bookings, targetSeconds, options); Array.sort sorts
\* the caller's list in place
Calculate ==
    /\ pc = "input"
    /\ result' = calculateDailyStatsJS(bookings, targetSeconds, options)
    /\ locals' = IF bookings = <<>> THEN NoLocals ELSE CallLocals(bookings, options)
    /\ bookings' = IF bookings = <<>> THEN bookings ELSE SortBookings(bookings)
    /\ pc' = "done"
    /\ UNCHANGED <<targetSeconds, options>>
    /\ UNCHANGED <<callVars, pageVars, sw>>
    /\ UNCHANGED appVars

Next ==
    \/ \E b \in AnyBooking : AddBooking(b)
    \/ Calculate

Spec == Init /\ [][Next]_vars

NextDay ==
    \/ \E a \in Actions, c \in DayClock : Stamp(a, c)
    \/ Calculate

SpecDay == Init /\ [][NextDay]_vars

(* --------------------------- further calls ------------------------------ *)

\* a second call with the same list object, target and options
CalculateAgain ==
    /\ pc = "done"
    /\ prevResult' = result
    /\ result' = calculateDailyStatsJS(bookings, targetSeconds, options)
    /\ locals' = IF bookings = <<>> THEN NoLocals ELSE CallLocals(bookings, options)
    /\ bookings' = IF bookings = <<>> THEN bookings ELSE SortBookings(bookings)
    /\ pc' = "again"
    /\ UNCHANGED <<targetSeconds, options, whatIf, rendered, pageVars, sw>>
    /\ UNCHANGED appVars

NextAgain ==
    \/ \E b \in AnyBooking : AddBooking(b)
    \/ Calculate
    \/ CalculateAgain

SpecAgain == Init /\ [][NextAgain]_vars

\* bookings that carry timestamp_iso, and bookings whose time string is no HH:MM
NextUnparsed ==
    \/ \E b \in {IsoBooking(a, d, c) : a \in Actions, d \in IsoDates, c \in IsoClock}
                 \cup {LegacyBooking(a, t) : a \in Actions, t \in UnparsedTimes} :
          AddBooking(b)
    \/ Calculate

SpecUnparsed == Init /\ [][NextUnparsed]_vars

\* planned departure times the user types into the what-if field
PlannedTimes == {<<12, 30>>, <<14, 0>>, <<14, 15>>, <<17, 10>>, <<18, 0>>, <<20, 0>>}

\* the temporary 'out' booking of the planned departure, on dayData.date
PlannedBooking(plannedTime) ==
    [action |-> "out",
     time |-> plannedTime,
     timestamp_iso |-> <<1, plannedTime[1], plannedTime[2], 0>>]

\* mutant: tempBookings is the stored list itself, not a copy of it
storedBookingsShared(bks, plannedTime) ==
    IF bks = <<>> THEN bks
    ELSE SortBookings(Append(bks, PlannedBooking(plannedTime)))

\* appState.dayData.bookings after a what-if call: the push and the sort of
\* the call work on tempBookings, a JSON deep copy
storedBookingsAfterWhatIf(bks, plannedTime) == bks

\* handlePlannedDepartureChange: the stats of a deep copy of the day's
\* bookings plus the planned departure; nothing is computed without bookings
handlePlannedDepartureChange(plannedTime) ==
    /\ pc = "input"
    /\ whatIf' =
         [plannedTime |-> plannedTime,
          stats |-> IF bookings = <<>> THEN <<>>
                    ELSE <<calculateDailyStatsJS(Append(bookings, PlannedBooking(plannedTime)),
                                                 targetSeconds, options)>>]
    /\ bookings' = storedBookingsAfterWhatIf(bookings, plannedTime)
    /\ pc' = "whatif"
    /\ UNCHANGED <<targetSeconds, options, result, locals>>
    /\ UNCHANGED <<prevResult, rendered, pageVars, sw>>
    /\ UNCHANGED appVars

NextWhatIf ==
    \/ \E a \in Actions, c \in DayClock : Stamp(a, c)
    \/ \E t \in PlannedTimes : handlePlannedDepartureChange(t)

\* one target, the default cutoffs, the paola button on or off
InitWhatIf ==
    /\ Init
    /\ targetSeconds = 28080
    /\ options.work_start_time_str = <<6, 30>>

SpecWhatIf == InitWhatIf /\ [][NextWhatIf]_vars

(* ------------------------ pause tier of a session ----------------------- *)

\* the live view: the session has grown by a second and its tier is looked up
TierLookup ==
    /\ pc = "input"
    /\ tier.gross < MaxGross
    /\ tier' = [gross |-> tier.gross + 1,
                pause |-> statutory_break_seconds(tier.gross + 1)]
    /\ UNCHANGED <<calcVars, callVars, pageVars, sw, app>>

NextTier == TierLookup

\* a session that has just begun
InitTier ==
    /\ InitWhatIf
    /\ options.paola = FALSE

SpecTier == InitTier /\ [][NextTier]_vars

(* ------------------------------ settings -------------------------------- *)

\* values of the settings form's time inputs (ui-components.js:155-190)
TargetHoursInputs == {<<7, 48>>, <<0, 0>>}

CutoffInputs == {<<6, 30>>, <<18, 30>>}

\* the stamps of the day while the settings are edited
SettingsDayClock == {<<8, 0, 0>>, <<12, 0, 0>>, <<17, 0, 0>>}

\* handleSettingsSubmit: the form values go into newSettings unchecked
newSettings(targetHours, startTime, endTime) ==
    [target_work_seconds |->
         Plus(Times(Field(targetHours, 1), 3600), Times(Field(targetHours, 2), 60)),
     work_start_time_str |-> startTime,
     work_end_time_str |-> endTime]

\* handleSettingsSubmit with saveUserSettings and, after a successful PUT,
\* loadUserSettings; putOk and getOk are the answers of the server
handleSettingsSubmit(targetHours, startTime, endTime, putOk, getOk) ==
    /\ pc = "input"
    /\ LET settings == newSettings(targetHours, startTime, endTime)
           loaded == putOk /\ getOk
       IN  /\ settingsSync' =
                [put |-> <<settings>>,
                 server |-> IF putOk THEN <<settings>> ELSE settingsSync.server,
                 app |-> IF ~putOk THEN settingsSync.app
                         ELSE IF getOk THEN <<settings>> ELSE <<>>]
           /\ targetSeconds' = IF loaded THEN settings.target_work_seconds
                               ELSE targetSeconds
           /\ options' = IF loaded
                         THEN [paola |-> options.paola,
                               work_start_time_str |-> settings.work_start_time_str,
                               work_end_time_str |-> settings.work_end_time_str]
                         ELSE options
    /\ UNCHANGED <<bookings, result, locals, pc>>
    /\ UNCHANGED <<callVars, timeInfo, milestones, sw>>
    /\ UNCHANGED appVars

\* the what-if handler reads appState.settings, which is null after a
\* failed load (the handler then throws before computing anything)
NextSettings ==
    \/ \E t \in TargetHoursInputs, s \in CutoffInputs, e \in CutoffInputs,
          putOk \in BOOLEAN, getOk \in BOOLEAN :
            handleSettingsSubmit(t, s, e, putOk, getOk)
    \/ \E a \in Actions, c \in SettingsDayClock : Stamp(a, c)
    \/ \E t \in PlannedTimes :
            settingsSync.app # <<>> /\ handlePlannedDepartureChange(t)

SpecSettings == InitWhatIf /\ [][NextSettings]_vars

(* ----------------------------- time info --------------------------------- *)

\* the net thresholds of time_to_6h, time_to_9h and time_to_10h
Thresholds == <<6 * 3600, 9 * 3600, 10 * 3600>>

\* stamps of a day on which each threshold can be open, reached or out of reach
MilestoneClock ==
    {<<7, 0, 0>>, <<8, 0, 0>>, <<12, 0, 0>>, <<12, 30, 0>>, <<17, 0, 0>>, <<18, 0, 0>>}

\* the least gross duration g with g - pause(g) = threshold, the manual pause
\* so far being a constant; one candidate per segment of the tier function
MilestoneGross(threshold, manual) ==
    LET candidates == {threshold, threshold + 30 * 60, threshold + 45 * 60,
                       threshold + manual}
        solves(g) == g - Max(manual, statutory_break_seconds(g)) = threshold
    IN  CHOOSE g \in candidates :
            /\ solves(g)
            /\ \A h \in candidates : solves(h) => g <= h

\* the server's answer for one threshold: "" when the bookings so far reach
\* it, 'Unreachable' when the needed gross time ends after the work end,
\* else the clock time at which it is reached if work goes on without pause
time_to_threshold(bks, threshold, opts) ==
    LET l == CallLocals(bks, opts)
        net == calculateDailyStatsJS(bks, 0, opts).netSeconds
        reachedAt == l.effective_first_stamp_seconds
                     + MilestoneGross(threshold, l.manual_pause_seconds)
    IN  IF net >= threshold THEN ""
        ELSE IF reachedAt > getSecondsOfDay([action |-> "out", timestamp_iso |-> Null,
                                             time |-> opts.work_end_time_str])
        THEN "Unreachable"
        ELSE secondsToTimeStr(reachedAt)

\* mutant: an unreachable milestone is shown like a time
renderMilestoneAsTime(time) ==
    IF time = "" THEN "Bereits erreicht" ELSE time

\* renderMilestone: the text shown for one milestone
renderMilestone(time) ==
    LET isUnreachable == time = "Unreachable"
        isReached == time = ""
    IN  IF isUnreachable THEN "Nicht erreichbar"
        ELSE IF isReached THEN "Bereits erreicht"
        ELSE time

renderTimeInfoMilestones(info) ==
    <<renderMilestone(info.time_to_6h), renderMilestone(info.time_to_9h),
      renderMilestone(info.time_to_10h)>>

\* loadTimeInfo: the answer of GET /timeinfo goes to appState.timeInfo and
\* the page is rendered
loadTimeInfo ==
    /\ pc = "input"
    /\ bookings # <<>>
    /\ timeInfo' = [time_to_6h |-> time_to_threshold(bookings, Thresholds[1], options),
                    time_to_9h |-> time_to_threshold(bookings, Thresholds[2], options),
                    time_to_10h |-> time_to_threshold(bookings, Thresholds[3], options)]
    /\ milestones' = renderTimeInfoMilestones(timeInfo')
    /\ pc' = "timeinfo"
    /\ UNCHANGED <<bookings, targetSeconds, options, result, locals>>
    /\ UNCHANGED <<callVars, settingsSync, sw>>
    /\ UNCHANGED appVars

NextTimeInfo ==
    \/ \E a \in Actions, c \in MilestoneClock : Stamp(a, c)
    \/ loadTimeInfo

\* the default settings, the paola button off
InitTimeInfo ==
    /\ InitWhatIf
    /\ options.paola = FALSE

SpecTimeInfo == InitTimeInfo /\ [][NextTimeInfo]_vars

(* --------------------------- service worker ----------------------------- *)

CACHE_NAME == "arbeitszeit-v4"

STATIC_CACHE == "arbeitszeit-static-v4"

\* a url.pathname: '/' + (dir + '/') + file + ('.' + ext), '/' itself is Root
Path(dir, file, ext) == [dir |-> dir, file |-> file, ext |-> ext]

Root == Path("", "", "")

STATIC_FILES ==
    {Path("", "manifest", "json"), Path("", "icon-192", "png"), Path("", "icon-512", "png")}

\* the paths the pages request
RequestPaths ==
    STATIC_FILES \union
    {Root, Path("", "index", "html"), Path("", "app", "js"),
     Path("api", "bookings", ""), Path("api", "export", "html")}

RequestMethods == {"GET", "POST"}

\* url.pathname === '/' || url.pathname.endsWith('.html')
IsHtml(path) == path = Root \/ path.ext = "html"

\* url.pathname.startsWith('/api/')
IsApi(path) == path.dir = "api"

\* mutant: every path counts as a static file
IsStaticFileAlways(path) == TRUE

\* STATIC_FILES.includes(url.pathname)
IsStaticFile(path) == path \in STATIC_FILES

CacheEntry(cache, path) == [cache |-> cache, path |-> path]

\* install: cache.addAll stores all static files or, when one request
\* fails, none (the failure is caught)
install(addAllOk) ==
    /\ sw.phase = "none"
    /\ sw' = [sw EXCEPT
                !.phase = "installed",
                !.caches = IF addAllOk
                           THEN @ \union {CacheEntry(STATIC_CACHE, f) : f \in STATIC_FILES}
                           ELSE @]
    /\ UNCHANGED <<calcVars, callVars, pageVars>>
    /\ UNCHANGED appVars

\* activate: every cache of another name is deleted
activate ==
    /\ sw.phase = "installed"
    /\ sw' = [sw EXCEPT
                !.phase = "active",
                !.caches = {e \in @ : e.cache \in {CACHE_NAME, STATIC_CACHE}}]
    /\ UNCHANGED <<calcVars, callVars, pageVars>>
    /\ UNCHANGED appVars

\* caches.match(request): a stored response for a GET of the path, in any cache
CacheMatch(path, method) ==
    method = "GET" /\ \E e \in sw.caches : e.path = path

\* the response the fetch handler answers with, and where it comes from
FetchResponse(path, method, networkOk) ==
    LET fromNetwork == IF networkOk THEN "network" ELSE "error"
        source ==
            IF IsHtml(path) THEN (IF networkOk THEN "network" ELSE "offline page")
            ELSE IF IsApi(path) THEN (IF networkOk THEN "network" ELSE "503")
            ELSE IF IsStaticFile(path)
            THEN (IF CacheMatch(path, method) THEN "cache" ELSE fromNetwork)
            ELSE fromNetwork
    IN  [path |-> path, method |-> method, source |-> source]

\* fetch: a static file answered from the network with an ok response is
\* put into STATIC_CACHE afterwards, without the answer waiting for it
fetch(path, method, networkOk, responseOk) ==
    /\ sw.phase = "active"
    /\ LET response == FetchResponse(path, method, networkOk)
           stores == /\ ~IsHtml(path) /\ ~IsApi(path) /\ IsStaticFile(path)
                     /\ response.source = "network" /\ responseOk
                     /\ method = "GET"
       IN  sw' = [sw EXCEPT
                    !.response = <<response>>,
                    !.pending = IF stores
                                THEN @ \union {CacheEntry(STATIC_CACHE, path)}
                                ELSE @]
    /\ UNCHANGED <<calcVars, callVars, pageVars>>
    /\ UNCHANGED appVars

\* cache.put of an earlier fetch completes
cachePut(e) ==
    /\ e \in sw.pending
    /\ sw' = [sw EXCEPT !.caches = @ \union {e}, !.pending = @ \ {e}]
    /\ UNCHANGED <<calcVars, callVars, pageVars>>
    /\ UNCHANGED appVars

NextServiceWorker ==
    \/ \E addAllOk \in BOOLEAN : install(addAllOk)
    \/ activate
    \/ \E path \in RequestPaths, method \in RequestMethods,
          networkOk \in BOOLEAN, responseOk \in BOOLEAN :
            fetch(path, method, networkOk, responseOk)
    \/ \E e \in sw.pending : cachePut(e)

SpecServiceWorker == InitTimeInfo /\ [][NextServiceWorker]_vars

(* ------------------------- the page: timers ----------------------------- *)

\* an id no running interval of the kind and no stored handle uses
FreshId(used) == CHOOSE n \in 1..(Cardinality(used) + 1) : n \notin used

Interval(kind, id) == [kind |-> kind, id |-> id]

\* if (timers[kind]) clearInterval(timers[kind]): the handle stays stored
clearInterval(a, kind) ==
    IF a.timers[kind] # 0
    THEN [a EXCEPT !.intervals = @ \ {Interval(kind, a.timers[kind])}]
    ELSE a

\* timers[kind] = setInterval(...)
setInterval(a, kind) ==
    LET used == {i.id : i \in {j \in a.intervals : j.kind = kind}} \union {a.timers[kind]}
        id == FreshId(used \union {0}) 
    IN  [a EXCEPT !.intervals = @ \union {Interval(kind, id)}, !.timers[kind] = id]

\* mutant: the interval started before is not cleared
setupLiveUpdatesWithoutClear(a) ==
    IF a.status.status = "in" THEN setInterval(a, "liveUpdate") ELSE a

setupLiveUpdates(a) ==
    LET cleared == clearInterval(a, "liveUpdate")
    IN  IF cleared.status.status = "in" THEN setInterval(cleared, "liveUpdate")
        ELSE cleared

setupTimeInfoLiveUpdates(a) ==
    LET cleared == clearInterval(a, "timeInfoLiveUpdate")
    IN  IF cleared.currentPage = "timeinfo"
        THEN setInterval(cleared, "timeInfoLiveUpdate")
        ELSE cleared

pauseTimeInfoUpdates(a) ==
    IF a.timers.timeInfoLiveUpdate # 0
    THEN [clearInterval(a, "timeInfoLiveUpdate") EXCEPT !.timers.timeInfoLiveUpdate = 0]
    ELSE a

\* render(): the page drawn, with the stamp button of the dashboard and,
\* when more than one user is known, the user switcher
render(a) ==
    [a EXCEPT !.dom = [page |-> a.currentPage,
                       stampEnabled |-> /\ a.currentPage = "dashboard"
                                        /\ ~a.isLoading /\ a.isOnline
                                        /\ a.activeUser = a.loggedInUser,
                       switcher |-> a.allUsers = "users"]]

(* ------------------------ the page: requests ----------------------------- *)

\* the load functions of the page, in the order their effects are applied
Loaders ==
    <<"loadStatus", "loadTodayData", "loadWeekData", "loadSessions", "loadTimeInfo",
      "loadUserSettings", "loadOvertimeData", "loadUsers">>

\* an async function of the given kind has made the calls fns for the active
\* user and goes on when all of them have returned; the answers to calls
\* awaited together arrive together. Waiting functions that made the same
\* calls are told apart by a number
IssueLoads(a, fns, signal, aborted, kind, page) ==
    LET p == IF kind = "router" THEN page ELSE ""
        alike == {t \in a.tasks : /\ t.kind = kind /\ t.page = p /\ t.fns = fns
                                   /\ t.user = a.activeUser /\ t.signal = signal}
        id == FreshId({t.id : t \in alike} \union {0})
    IN  [a EXCEPT
           !.tasks = @ \union {[id |-> id, kind |-> kind, page |-> p, fns |-> fns,
                                user |-> a.activeUser, signal |-> signal,
                                aborted |-> aborted]}]

\* routeAbortController.abort(); routeAbortController = new AbortController()
abort(a) ==
    [a EXCEPT
       !.tasks = {[t EXCEPT !.aborted = @ \/ t.signal = "route"] : t \in @},
       !.initSignalAborted = TRUE]

\* the calls router() awaits for a page
PageLoads(page) ==
    IF page = "sessions" THEN {"loadSessions", "loadUserSettings"}
    ELSE IF page = "timeinfo" THEN {"loadTimeInfo", "loadUserSettings"}
    ELSE IF page = "flextime" THEN {"loadOvertimeData"}
    ELSE IF page = "settings" THEN {"loadUserSettings"}
    ELSE {}

\* router() up to its first await, or to its end for a page without loads
router(a, page) ==
    LET aborted == abort(a)
        cleared == clearInterval(clearInterval(aborted, "liveUpdate"), "timeInfoLiveUpdate")
        routed == [cleared EXCEPT !.currentPage = page]
    IN  IF PageLoads(page) # {}
        THEN IssueLoads(routed, PageLoads(page), "route", FALSE, "router", page)
        ELSE IF page = "dashboard" THEN render(setupLiveUpdates(routed))
        ELSE render(routed)

\* what a load function writes when its response arrives
LoadWrites(a, fn, user) ==
    IF fn = "loadStatus"
    THEN [a EXCEPT !.status = [user |-> user, status |-> a.server[user]]]
    ELSE IF fn = "loadTodayData" THEN [a EXCEPT !.dayData = user]
    ELSE IF fn = "loadWeekData" THEN [a EXCEPT !.weekData = user]
    ELSE IF fn = "loadSessions" THEN [a EXCEPT !.sessions = user]
    ELSE IF fn = "loadTimeInfo" THEN [a EXCEPT !.timeInfo = user]
    ELSE IF fn = "loadUserSettings" THEN [a EXCEPT !.settings = user]
    ELSE IF fn = "loadOvertimeData" THEN [a EXCEPT !.overtimeData = user]
    ELSE IF fn = "loadUsers" THEN [a EXCEPT !.allUsers = "users"]
    ELSE a

\* mutant: a catch block never writes
LoadCatchesNothing(a, fn) == a

\* what its catch block writes when the fetch is rejected as aborted
LoadCatches(a, fn) ==
    IF fn = "loadUserSettings" THEN [a EXCEPT !.settings = "null"]
    ELSE IF fn = "loadOvertimeData" THEN [a EXCEPT !.overtimeData = "Fehler"]
    ELSE IF fn = "loadUsers" THEN [a EXCEPT !.allUsers = "[]"]
    ELSE a

RECURSIVE LoadsReturn(_, _, _)
\* the calls of t return, the first i of Loaders still to be applied
LoadsReturn(a, t, i) ==
    IF i = 0 THEN a
    ELSE LET before == LoadsReturn(a, t, i - 1)
             fn == Loaders[i]
         IN  IF fn \notin t.fns THEN before
             ELSE IF t.aborted THEN LoadCatches(before, fn)
             ELSE LoadWrites(before, fn, t.user)

StatusLoads == {"loadStatus", "loadTodayData", "loadWeekData"}

\* the async function t goes on after its awaited calls have returned
Continue(a, t, ok) ==
    IF t.kind = "init"
    THEN IssueLoads(a, StatusLoads \union {"loadUserSettings"}, "route",
                    a.initSignalAborted, "loaded", t.page)
    ELSE IF t.kind \in {"loaded", "switchActiveUser", "visible"}
    THEN router(a, a.currentPage)
    ELSE IF t.kind = "router"
    THEN render(IF t.page = "timeinfo" THEN setupTimeInfoLiveUpdates(a) ELSE a)
    ELSE IF t.kind = "handleStamp"
    THEN IF ok
         THEN IssueLoads([a EXCEPT !.server[t.user] = IF @ = "in" THEN "out" ELSE "in"],
                         StatusLoads, "local", FALSE, "stamped", t.page)
         ELSE render([a EXCEPT !.isLoading = FALSE])
    ELSE IF t.kind = "stamped"
    THEN render([setupLiveUpdates(a) EXCEPT !.isLoading = FALSE])
    ELSE a

\* mutant: the request is sent without looking at isOnline and the users
handleStampUnguarded(a) ==
    IssueLoads([a EXCEPT !.isLoading = TRUE], {"stamp"}, "none", FALSE,
               "handleStamp", a.currentPage)

\* handleStamp up to its first await
handleStamp(a) ==
    IF ~a.isOnline THEN a
    ELSE IF a.loggedInUser # a.activeUser THEN a
    ELSE IssueLoads([a EXCEPT !.isLoading = TRUE], {"stamp"}, "none", FALSE,
                    "handleStamp", a.currentPage)

(* ------------------------- the page: events ----------------------------- *)

otherVars == <<calcVars, callVars, pageVars, sw, tier>>

\* another async function may start waiting
Capacity == Cardinality(app.tasks) < MaxTasks

\* no rejection is waiting to be handled: abort() rejects the fetches of the
\* signal at once, and the catch blocks and the code after the awaits run as
\* microtasks, before the next event is dispatched
Settled == \A t \in app.tasks : ~t.aborted

\* init() up to await loadUsers(signal); the listeners are installed
init ==
    /\ ~app.booted
    /\ app' = IssueLoads([app EXCEPT !.booted = TRUE], {"loadUsers"}, "route", FALSE,
                         "init", app.currentPage)
    /\ UNCHANGED otherVars

\* hashchange: router() for the new hash
hashchange(page) ==
    /\ app.booted
    /\ Settled
    /\ page # app.currentPage
    /\ PageLoads(page) # {} => Capacity
    /\ app' = router(app, page)
    /\ UNCHANGED otherVars

\* onchange of the user switcher: switchActiveUser(username) up to its await
switchActiveUser(username) ==
    /\ app.dom.switcher
    /\ Settled
    /\ username # app.activeUser
    /\ Capacity
    /\ app' = IssueLoads(abort([app EXCEPT !.activeUser = username]),
                         StatusLoads \union {"loadUserSettings"}, "route", FALSE,
                         "switchActiveUser", app.currentPage)
    /\ UNCHANGED otherVars

\* keydown listener: the space key on the dashboard
keydown ==
    /\ app.booted
    /\ Settled
    /\ app.currentPage = "dashboard"
    /\ app.loggedInUser = app.activeUser
    /\ app.isOnline => Capacity
    /\ app' = handleStamp(app)
    /\ UNCHANGED otherVars

\* onclick of the stamp button as the last render() drew it
click ==
    /\ app.booted
    /\ Settled
    /\ app.dom.page = "dashboard"
    /\ app.dom.stampEnabled
    /\ (app.isOnline /\ app.loggedInUser = app.activeUser) => Capacity
    /\ app' = handleStamp(app)
    /\ UNCHANGED otherVars

\* onfocus of the planned departure input of the time info page
onfocus ==
    /\ Settled
    /\ app.dom.page = "timeinfo"
    /\ app' = pauseTimeInfoUpdates(app)
    /\ UNCHANGED otherVars

\* onblur of that input
onblur ==
    /\ Settled
    /\ app.dom.page = "timeinfo"
    /\ app' = setupTimeInfoLiveUpdates(app)
    /\ UNCHANGED otherVars

\* visibilitychange: a visible page reloads and routes again when online,
\* a hidden page clears both page timers
visibilitychange ==
    /\ app.booted
    /\ Settled
    /\ (app.hidden /\ app.isOnline) => Capacity
    /\ app' =
         IF app.hidden
         THEN IF app.isOnline
              THEN IssueLoads([app EXCEPT !.hidden = FALSE], StatusLoads, "none", FALSE,
                              "visible", app.currentPage)
              ELSE [app EXCEPT !.hidden = FALSE]
         ELSE clearInterval(clearInterval([app EXCEPT !.hidden = TRUE], "liveUpdate"),
                            "timeInfoLiveUpdate")
    /\ UNCHANGED otherVars

\* online and offline listeners
online ==
    /\ app.booted
    /\ Settled
    /\ ~app.isOnline
    /\ app' = render([app EXCEPT !.isOnline = TRUE])
    /\ UNCHANGED otherVars

offline ==
    /\ app.booted
    /\ Settled
    /\ app.isOnline
    /\ app' = render([app EXCEPT !.isOnline = FALSE])
    /\ UNCHANGED otherVars

\* a running timeInfoLiveUpdate interval fires: loadTimeInfo() without signal
timeInfoLiveUpdate ==
    /\ Settled
    /\ \E i \in app.intervals : i.kind = "timeInfoLiveUpdate"
    /\ Capacity
    /\ app' = IssueLoads(app, {"loadTimeInfo"}, "none", FALSE, "interval", app.currentPage)
    /\ UNCHANGED otherVars

\* the answers to the calls of t arrive (or their fetches are rejected as
\* aborted): the called functions finish and t goes on; of functions that
\* differ in their number only, the one with the highest goes on
response(t, ok) ==
    /\ t \in app.tasks
    /\ t.aborted \/ Settled
    /\ \A u \in app.tasks : [u EXCEPT !.id = t.id] = t => u.id <= t.id
    /\ LET returned == LoadsReturn([app EXCEPT !.tasks = @ \ {t}], t, Len(Loaders))
       IN  app' = Continue(returned, t, ok)
    /\ UNCHANGED otherVars

\* the answers that can arrive
Responses ==
    \E t \in app.tasks :
        \E ok \in (IF t.kind = "handleStamp" THEN BOOLEAN ELSE {TRUE}) : response(t, ok)

\* route changes between the dashboard, the time info page and a page
\* without loads, stamps, focus and blur, visibility changes, user switches
NextTimers ==
    \/ init
    \/ \E page \in {"dashboard", "timeinfo", "manual"} : hashchange(page)
    \/ \E username \in Users : switchActiveUser(username)
    \/ keydown
    \/ click
    \/ onfocus
    \/ onblur
    \/ visibilitychange
    \/ timeInfoLiveUpdate
    \/ Responses

SpecTimers == InitTier /\ [][NextTimers]_vars

\* stamping by key and by button while the connection and the active user change
NextStamp ==
    \/ init
    \/ \E page \in {"dashboard", "manual"} : hashchange(page)
    \/ \E username \in Users : switchActiveUser(username)
    \/ keydown
    \/ click
    \/ online
    \/ offline
    \/ Responses

SpecStamp == InitTier /\ [][NextStamp]_vars

\* route changes over all pages and user switches while loads are in flight
NextLoads ==
    \/ init
    \/ \E page \in Pages : hashchange(page)
    \/ \E username \in Users : switchActiveUser(username)
    \/ Responses

SpecLoads == InitTier /\ [][NextLoads]_vars

\* user switches among route changes, time info refreshes and visibility changes
NextUsers ==
    \/ init
    \/ \E page \in {"dashboard", "timeinfo"} : hashchange(page)
    \/ \E username \in Users : switchActiveUser(username)
    \/ visibilitychange
    \/ timeInfoLiveUpdate
    \/ Responses

SpecUsers == InitTier /\ [][NextUsers]_vars

\* a caller about to format a number of seconds
InitRender ==
    /\ bookings = <<>>
    /\ targetSeconds = 28080
    /\ options = [paola |-> FALSE, work_start_time_str |-> <<6, 30>>,
                  work_end_time_str |-> <<18, 30>>]
    /\ result = EmptyResult
    /\ locals = NoLocals
    /\ pc = "render"
    /\ prevResult = EmptyResult
    /\ whatIf = NoWhatIf
    /\ rendered \in [seconds : (-MaxSeconds)..MaxSeconds, timeStr : {""}]
    /\ settingsSync = NoSettingsSync
    /\ timeInfo = NoTimeInfo
    /\ milestones = NoMilestones
    /\ sw = NoServiceWorker
    /\ tier = NoTier
    /\ app = NoApp

\* one call of secondsToTimeStr
Render ==
    /\ pc = "render"
    /\ rendered' = [seconds |-> rendered.seconds,
                    timeStr |-> secondsToTimeStr(rendered.seconds)]
    /\ pc' = "rendered"
    /\ UNCHANGED <<bookings, targetSeconds, options, result, locals>>
    /\ UNCHANGED <<prevResult, whatIf, pageVars, sw>>
    /\ UNCHANGED appVars

NextFormat ==
    \/ Render
    \/ \E b \in AnyBooking : AddBooking(b)
    \/ Calculate

SpecFormat == (Init \/ InitRender) /\ [][NextFormat]_vars

(* ------------------------- properties of a call ------------------------- *)

Done == pc = "done"

Computed == Done /\ bookings # <<>>

\* the statutory tier as the specification tabulates it
ClaimTier(g) ==
    IF g <= 21600 THEN 0
    ELSE IF g <= 23400 THEN g - 21600
    ELSE IF g <= 32400 THEN 1800
    ELSE IF g <= 33300 THEN 1800 + (g - 32400)
    ELSE 2700

\* time of day of the earliest and of the latest event of a non-empty list
FirstStamp(bks) ==
    LET i == CHOOSE k \in 1..Len(bks) :
                 \A j \in 1..Len(bks) : SortTime(bks[k]) <= SortTime(bks[j])
    IN  getSecondsOfDay(bks[i])

LastStamp(bks) ==
    LET i == CHOOSE k \in 1..Len(bks) :
                 \A j \in 1..Len(bks) : SortTime(bks[k]) >= SortTime(bks[j])
    IN  getSecondsOfDay(bks[i])

ClaimGross(bks, lo, hi) == Max(0, Min(LastStamp(bks), hi) - Max(FirstStamp(bks), lo))

\* length of the part of the gap [a, b] that lies inside [lo, hi]
InsideLength(a, b, lo, hi) == Max(0, Min(b, hi) - Max(a, lo))

RECURSIVE SumOver(_, _)
SumOver(S, f) ==
    IF S = {} THEN 0
    ELSE LET x == CHOOSE y \in S : TRUE IN f[x] + SumOver(S \ {x}, f)

OutInPairs(bks) ==
    {i \in 1..(Len(bks) - 1) : bks[i].action = "out" /\ bks[i + 1].action = "in"}

ClaimManualPause(bks) ==
    LET lo == Max(FirstStamp(bks), 23400)
        hi == Min(LastStamp(bks), 66600)
        gap == [i \in OutInPairs(bks) |->
                   InsideLength(getSecondsOfDay(bks[i]), getSecondsOfDay(bks[i + 1]), lo, hi)]
    IN  SumOver(OutInPairs(bks), gap)

Clock(h, m) == h * 3600 + m * 60

\* C1: after every call the deducted pause is not negative and the net time
\* lies in 0..36000; a span whose uncapped net exceeds 10 h reports 36000.
C1_NetWithinCap ==
    Done =>
        /\ result.pauseSeconds >= 0
        /\ 0 <= result.netSeconds /\ result.netSeconds <= 36000
        /\ (locals.gross_session_seconds - result.pauseSeconds > 36000
              => result.netSeconds = 36000)

C1_Witness ==
    /\ Done
    /\ locals.gross_session_seconds - result.pauseSeconds > 36000
    /\ result.netSeconds = 36000

\* a single IN/OUT pair inside the cutoffs, supplemental pause off
SinglePairInside ==
    /\ Done /\ Len(bookings) = 2
    /\ bookings[1].action = "in" /\ bookings[2].action = "out"
    /\ getSecondsOfDay(bookings[1]) >= 23400
    /\ getSecondsOfDay(bookings[2]) <= 66600
    /\ getSecondsOfDay(bookings[1]) <= getSecondsOfDay(bookings[2])
    /\ ~options.paola

PairSpan == getSecondsOfDay(bookings[2]) - getSecondsOfDay(bookings[1])

\* C2: for a single IN/OUT pair inside the cutoffs with the supplemental
\* pause off, the deducted pause is the statutory tier of the span:
\* 6h -> 0, 6h15m -> 15min, 8h -> 30min, 9h10m -> 40min, 10h -> 45min.
C2_PairPauseIsTier ==
    SinglePairInside =>
        /\ result.pauseSeconds = ClaimTier(PairSpan)
        /\ (PairSpan = 21600 => result.pauseSeconds = 0)
        /\ (PairSpan = 22500 => result.pauseSeconds = 900)
        /\ (PairSpan = 28800 => result.pauseSeconds = 1800)
        /\ (PairSpan = 33000 => result.pauseSeconds = 2400)
        /\ (PairSpan = 36000 => result.pauseSeconds = 2700)

C2_Witness ==
    /\ SinglePairInside
    /\ PairSpan = 33000
    /\ result.pauseSeconds = 2400

ScenarioBreak ==
    <<IsoBooking("in", 1, <<8, 0, 0>>), IsoBooking("out", 1, <<12, 0, 0>>),
      IsoBooking("in", 1, <<12, 30, 0>>), IsoBooking("out", 1, <<17, 0, 0>>)>>

\* C3: with the supplemental pause off the deducted pause is the larger of
\* the manual pause and the tier of the gross span (never the tier of gross
\* minus manual pause); 08:00-12:00, 12:30-17:00 with target 28080 gives
\* pause 30min, net 30600, overtime 2520 "00:42"; 9h30m gross with a 40min
\* manual pause deducts 45min.
C3_PauseIsMaxOfManualAndGrossTier ==
    (Computed /\ ~options.paola) =>
        /\ result.pauseSeconds
             = Max(ClaimManualPause(bookings), ClaimTier(ClaimGross(bookings, 23400, 66600)))
        /\ (bookings = ScenarioBreak /\ targetSeconds = 28080 =>
              /\ locals.gross_session_seconds = 32400
              /\ result.pauseSeconds = 1800
              /\ result.netSeconds = 30600
              /\ result.overtimeSeconds = 2520
              /\ result.overtime = "00:42")
        /\ (locals.gross_session_seconds = 34200 /\ locals.manual_pause_seconds = 2400
              => result.pauseSeconds = 2700)

C3_Witness ==
    /\ Computed /\ ~options.paola
    /\ locals.gross_session_seconds = 34200
    /\ locals.manual_pause_seconds = 2400
    /\ result.pauseSeconds = 2700

ScenarioLongDay ==
    <<IsoBooking("in", 1, <<7, 0, 0>>), IsoBooking("out", 1, <<20, 0, 0>>)>>

C5_ManualPauseIsClippedGapSum ==
    Computed => locals.manual_pause_seconds = ClaimManualPause(bookings)

\* a gap that starts before the start cutoff and ends inside the window
C5_Witness ==
    /\ Computed
    /\ \E i \in OutInPairs(bookings) :
          /\ getSecondsOfDay(bookings[i]) < 23400
          /\ getSecondsOfDay(bookings[i + 1]) > 23400
          /\ locals.manual_pause_seconds
               < getSecondsOfDay(bookings[i + 1]) - getSecondsOfDay(bookings[i])
    /\ locals.manual_pause_seconds > 0

C8_SingleEventNoPause_Original ==
    (Done /\ Len(bookings) = 1) =>
        /\ locals.gross_session_seconds = 0
        /\ result.pauseSeconds = 0
        /\ result.netSeconds = 0

\* C8: one event gives gross 0 and net 0 whatever the options; the pause is
\* 0 with the supplemental pause off and 3000 with it on.
C8_SingleEvent ==
    (Done /\ Len(bookings) = 1) =>
        /\ locals.gross_session_seconds = 0
        /\ result.netSeconds = 0
        /\ result.pauseSeconds = (IF options.paola THEN 3000 ELSE 0)

C8_Witness ==
    /\ Done /\ Len(bookings) = 1
    /\ options.paola
    /\ result.pauseSeconds = 3000
    /\ result.netSeconds = 0

\* C9: on a non-empty list the 50 minute floor applies exactly when the
\* supplemental option is on and the manual pause is 0: then the pause is
\* max(tier(gross), 3000); otherwise it is max(manual pause, tier(gross)).
C9_SupplementalFloor ==
    Computed =>
        result.pauseSeconds
          = (IF options.paola /\ ClaimManualPause(bookings) = 0
             THEN Max(ClaimTier(locals.gross_session_seconds), 3000)
             ELSE Max(ClaimManualPause(bookings), ClaimTier(locals.gross_session_seconds)))

\* option on, a manual pause shorter than 50 minutes: no floor
C9_Witness ==
    /\ Computed /\ options.paola
    /\ locals.manual_pause_seconds > 0
    /\ locals.manual_pause_seconds < 3000
    /\ result.pauseSeconds < 3000

\* C10: the gross span is clamped to the cutoffs the options supply.
C10_GrossUsesConfiguredCutoffs ==
    Computed =>
        locals.gross_session_seconds
          = ClaimGross(bookings,
                       Clock(options.work_start_time_str[1], options.work_start_time_str[2]),
                       Clock(options.work_end_time_str[1], options.work_end_time_str[2]))

DistinctTimesOfDay(bks) ==
    \A i, j \in 1..Len(bks) : i # j => getSecondsOfDay(bks[i]) # getSecondsOfDay(bks[j])

\* C11: events with pairwise distinct times of day, with or without an
\* absolute timestamp and in any supplied order, are processed in ascending
\* time-of-day order: the first stamp is the minimum, the last the maximum,
\* consecutive pairs are neighbours in time.
C11_ProcessedInTimeOfDayOrder ==
    (Computed /\ DistinctTimesOfDay(bookings)) =>
        \A i \in 1..(Len(locals.sortedBookings) - 1) :
            getSecondsOfDay(locals.sortedBookings[i])
              < getSecondsOfDay(locals.sortedBookings[i + 1])

\* C12: a call leaves the caller's event list as it was, same elements in
\* the same order.
C12_InputListUnchanged ==
    [][(pc = "input" /\ pc' = "done") => bookings' = bookings]_vars

\* the planned departure is not earlier than any booking of the day
PlannedNotEarlier ==
    /\ pc = "whatif" /\ whatIf.stats # <<>>
    /\ \A i \in 1..Len(bookings) :
          getSecondsOfDay(bookings[i]) <= getSecondsOfDay(PlannedBooking(whatIf.plannedTime))

RealNetSeconds == calculateDailyStatsJS(bookings, targetSeconds, options).netSeconds

C14_SecondCallSameResult ==
    pc = "again" =>
        /\ result.worked = prevResult.worked
        /\ result.pause = prevResult.pause
        /\ result.overtime = prevResult.overtime
        /\ result.netSeconds = prevResult.netSeconds
        /\ result.pauseSeconds = prevResult.pauseSeconds
        /\ result.overtimeSeconds = prevResult.overtimeSeconds

\* two bookings of the same time whose order decides the manual pause
C14_Witness ==
    /\ pc = "again" /\ Len(bookings) = 3
    /\ SortTime(bookings[1]) = SortTime(bookings[2])
    /\ bookings[1].action # bookings[2].action
    /\ bookings[3].action = "in"
    /\ result.pauseSeconds > 0

Digit == <<"0", "1", "2", "3", "4", "5", "6", "7", "8", "9">>

TwoDigits(n) == Digit[(n \div 10) + 1] \o Digit[(n % 10) + 1]

\* "HH:MM" of the magnitude cut to whole minutes, '-' in front iff s < 0
ClaimRender(s) ==
    LET a == IF s < 0 THEN -s ELSE s
        text == TwoDigits(a \div 3600) \o ":" \o TwoDigits((a % 3600) \div 60)
    IN  IF s < 0 THEN "-" \o text ELSE text

\* C15: secondsToTimeStr(s) is two-digit hours, ':', two-digit minutes of
\* |s| cut to whole minutes, with '-' in front iff s < 0 (-30 gives
\* "-00:00"); the three strings of a result are this rendering of its
\* three numbers.
C15_RenderingOfSeconds ==
    /\ (pc = "rendered" =>
          /\ rendered.timeStr = ClaimRender(rendered.seconds)
          /\ (rendered.seconds = -30 => rendered.timeStr = "-00:00"))
    /\ (Done =>
          /\ result.worked = ClaimRender(result.netSeconds)
          /\ result.pause = ClaimRender(result.pauseSeconds)
          /\ result.overtime = ClaimRender(result.overtimeSeconds))

C15_Witness ==
    /\ pc = "rendered"
    /\ rendered.seconds = -30
    /\ rendered.timeStr = "-00:00"

HasUnparsedTime(bks) ==
    \E i \in 1..Len(bks) :
        bks[i].timestamp_iso = Null /\ bks[i].time # Null
        /\ IsNaN(getSecondsOfDay(bks[i]))

\* C16: a call on a list with an event whose time string is no HH:MM (and
\* that has no absolute timestamp) fails with InvalidTimeFormat; it never
\* returns a computed result.
C16_UnparsedTimeFails ==
    HasUnparsedTime(bookings) => pc \in {"input", "InvalidTimeFormat"}

ValidConfiguration(s) ==
    /\ ~IsNaN(s.target_work_seconds) /\ s.target_work_seconds >= 0
    /\ s.work_end_time_str[1] * 60 + s.work_end_time_str[2]
         > s.work_start_time_str[1] * 60 + s.work_start_time_str[2]

\* C17: a configuration with a negative target, or with a work end not
\* later than the work start, is rejected at settings submit: it is never
\* sent for saving, never saved and never passed to the calculator.
C17_InvalidConfigurationRejected ==
    /\ \A i \in 1..Len(settingsSync.put) : ValidConfiguration(settingsSync.put[i])
    /\ \A i \in 1..Len(settingsSync.server) : ValidConfiguration(settingsSync.server[i])
    /\ \A i \in 1..Len(settingsSync.app) : ValidConfiguration(settingsSync.app[i])
    /\ (pc = "whatif" /\ whatIf.stats # <<>> =>
           ValidConfiguration([target_work_seconds |-> targetSeconds,
                               work_start_time_str |-> options.work_start_time_str,
                               work_end_time_str |-> options.work_end_time_str]))

TimeTo(k) ==
    IF k = 1 THEN timeInfo.time_to_6h
    ELSE IF k = 2 THEN timeInfo.time_to_9h
    ELSE timeInfo.time_to_10h

\* C18: for a single IN at t the milestone of a net threshold N is the
\* clock time t + g for a gross duration g with g - pauseTier(g) = N (or it
\* is out of reach); for t = 08:00 and N = 6 h it is 14:00.
C18_MilestoneOfSingleIn ==
    (pc = "timeinfo" /\ Len(bookings) = 1 /\ bookings[1].action = "in") =>
        LET t == getSecondsOfDay(bookings[1])
        IN  /\ \A k \in 1..3 :
                   \/ TimeTo(k) = "Unreachable"
                   \/ \E g \in Thresholds[k]..(Thresholds[k] + 2700) :
                          /\ g - ClaimTier(g) = Thresholds[k]
                          /\ TimeTo(k) = ClaimRender(t + g)
            /\ (t = Clock(8, 0) => timeInfo.time_to_6h = "14:00")

C18_Witness ==
    /\ pc = "timeinfo" /\ Len(bookings) = 1 /\ bookings[1].action = "in"
    /\ getSecondsOfDay(bookings[1]) = Clock(8, 0)
    /\ timeInfo.time_to_6h = "14:00"
    /\ timeInfo.time_to_9h = "17:45"
    /\ timeInfo.time_to_10h = "Unreachable"

\* a clock time "HH:MM" not later than hi seconds of the day
IsClockNotAfter(text, hi) ==
    \E h \in 0..23, m \in 0..59 :
        text = TwoDigits(h) \o ":" \o TwoDigits(m) /\ Clock(h, m) <= hi

\* C19: each of the three thresholds has exactly one outcome: already
\* reached iff the net time of the bookings is at least the threshold,
\* else unreachable or a clock time not later than the work end; the page
\* shows 'Nicht erreichbar' only for unreachable and 'Bereits erreicht'
\* only for already reached.
C19_ThreeOutcomes ==
    pc = "timeinfo" =>
        \A k \in 1..3 :
            LET reached == RealNetSeconds >= Thresholds[k]
                unreachable == TimeTo(k) = "Unreachable"
                clock == IsClockNotAfter(TimeTo(k), Clock(18, 30))
            IN  /\ reached <=> TimeTo(k) = ""
                /\ ~reached => (unreachable /\ ~clock) \/ (clock /\ ~unreachable)
                /\ reached => ~unreachable /\ ~clock
                /\ milestones[k] = "Nicht erreichbar" <=> unreachable
                /\ milestones[k] = "Bereits erreicht" <=> reached
                /\ (clock => milestones[k] = TimeTo(k))

\* 6 h reached, 9 h open at 17:45, 10 h out of reach
C19_Witness ==
    /\ pc = "timeinfo"
    /\ milestones = <<"Bereits erreicht", "17:45", "Nicht erreichbar">>

TierNet == tier.gross - tier.pause

\* C21 as stated: g -> g - pauseTier(g) is strictly increasing, so a net
\* threshold is met by exactly one gross duration (6 h only by g = 6 h).
C21_NetStrictlyIncreasing_Original ==
    /\ [][TierNet' > TierNet]_vars
    /\ [](TierNet = 21600 => tier.gross = 21600)

\* C21: g -> g - pauseTier(g) never decreases; it grows 1:1 where the tier
\* is constant and stands still on the two ramps, so 9 h and 10 h net are
\* met by exactly one gross duration (9 h 45 and 10 h 45) and 6 h net by
\* every gross duration from 6 h to 6 h 30.
C21_NetNondecreasing ==
    /\ [][/\ TierNet' >= TierNet
          /\ tier'.pause \in {tier.pause, tier.pause + 1}
          /\ (tier'.pause = tier.pause => TierNet' = TierNet + 1)]_vars
    /\ [](/\ (TierNet = 32400 <=> tier.gross = 35100)
          /\ (TierNet = 36000 <=> tier.gross = 38700)
          /\ (TierNet = 21600 <=> tier.gross \in 21600..23400))

\* the end of the first ramp: 6 h 30 gross still gives 6 h net
C21_Witness ==
    /\ tier.gross = 23400
    /\ tier.pause = 1800

AllAbsolute(bks) == \A i \in 1..Len(bks) : bks[i].timestamp_iso # Null

\* C22: without the supplemental pause, for events that all carry an
\* absolute timestamp of one day, the deducted pause is at most the gross
\* span, and net + pause = gross span whenever the net is below 36000.
C22_PauseWithinGross ==
    (Computed /\ AllAbsolute(bookings)
       /\ (~options.paola \/ locals.manual_pause_seconds > 0)) =>
        /\ result.pauseSeconds <= ClaimGross(bookings, 23400, 66600)
        /\ (result.netSeconds < 36000 =>
               result.netSeconds + result.pauseSeconds
                 = ClaimGross(bookings, 23400, 66600))

\* a gap that begins before the work start and is clipped to the window
C22_Witness ==
    /\ Computed /\ AllAbsolute(bookings) /\ ~options.paola
    /\ Len(bookings) = 3
    /\ bookings[1].action = "out" /\ getSecondsOfDay(bookings[1]) < 23400
    /\ bookings[2].action = "in"
    /\ result.pauseSeconds = 1800
    /\ result.netSeconds + result.pauseSeconds = ClaimGross(bookings, 23400, 66600)

Swap(bks, i) == [bks EXCEPT ![i] = bks[i + 1], ![i + 1] = bks[i]]

\* C23: the result does not depend on the order in which events of the
\* same time of day are supplied: the same list with two such neighbours
\* exchanged gives the same result.
C23_TieOrderIrrelevant ==
    Computed =>
        \A i \in 1..(Len(bookings) - 1) :
            getSecondsOfDay(bookings[i]) = getSecondsOfDay(bookings[i + 1]) =>
                calculateDailyStatsJS(Swap(bookings, i), targetSeconds, options) = result

ActiveIntervals(kind) == {i \in app.intervals : i.kind = kind}

\* C24: after any sequence of route changes, stamps, focus and blur,
\* visibility changes and user switches at most one liveUpdate interval and
\* at most one timeInfoLiveUpdate interval is running, and a running one is
\* the one whose handle timers holds.
C24_AtMostOneIntervalOfAKind ==
    \A kind \in {"liveUpdate", "timeInfoLiveUpdate"} :
        /\ Cardinality(ActiveIntervals(kind)) <= 1
        /\ \A i \in ActiveIntervals(kind) : app.timers[kind] = i.id

\* both intervals have been started a second time, the liveUpdate interval
\* is running
C24_Witness ==
    /\ app.timers.liveUpdate = 2
    /\ app.timers.timeInfoLiveUpdate = 2
    /\ Cardinality(ActiveIntervals("liveUpdate")) = 1

\* the POST requests to /stamp that have not been answered
StampRequests(a) == {t \in a.tasks : t.kind = "handleStamp"}

\* handleStamp may send: the app is online and the logged-in user is the
\* active user
MayStamp(a) == a.isOnline /\ a.loggedInUser = a.activeUser

\* C26: a POST to /stamp is sent only in a state in which the app is online
\* and the logged-in user is the active user, and isLoading is set only
\* there; in every other reachable state a call of handleStamp sends nothing
\* and leaves isLoading and all loaded data as they are.
C26_StampOnlyWhenAllowed ==
    /\ [][(StampRequests(app') \ StampRequests(app) # {} \/ (app'.isLoading /\ ~app.isLoading))
            => MayStamp(app)]_vars
    /\ [](~MayStamp(app) => handleStamp(app) = app)

\* a stamp request is under way and the connection has been lost since
C26_Witness ==
    /\ StampRequests(app) # {}
    /\ ~app.isOnline
    /\ app.currentPage = "dashboard"

\* C27: at most one POST to /stamp is unanswered at any time.
C27_OneStampInFlight == Cardinality(StampRequests(app)) <= 1

\* C28: a timeInfoLiveUpdate interval runs only while currentPage is
\* 'timeinfo' and a liveUpdate interval only while currentPage is 'dashboard'.
C28_IntervalsOnlyOnTheirPage ==
    /\ ActiveIntervals("timeInfoLiveUpdate") # {} => app.currentPage = "timeinfo"
    /\ ActiveIntervals("liveUpdate") # {} => app.currentPage = "dashboard"

\* the parts of appState the load functions write
LoadedData(a) ==
    <<a.status, a.dayData, a.weekData, a.sessions, a.timeInfo, a.settings,
      a.overtimeData, a.allUsers>>

\* C29: when the calls of an aborted load return, the loaded data of
\* appState are what they were before.
C29_AbortedLoadWritesNothing ==
    [][\A t \in app.tasks :
          (t.aborted /\ t \notin app'.tasks) => LoadedData(app') = LoadedData(app)]_vars

\* a switch of the active user has completed, and no function that ends
\* with a call of router() is still waiting
SwitchCompleted ==
    /\ app.activeUser # app.loggedInUser
    /\ \A t \in app.tasks :
          t.kind \notin {"init", "loaded", "switchActiveUser", "router", "visible"}

\* C30: once switchActiveUser(u) has completed, status, dayData, weekData and
\* timeInfo are data fetched for u, and on the visible dashboard the live
\* timer runs exactly when the status of u is 'in'.
C30_SwitchedUserData ==
    SwitchCompleted =>
        /\ app.status.user = app.activeUser
        /\ app.dayData = app.activeUser
        /\ app.weekData = app.activeUser
        /\ app.timeInfo \in {"", app.activeUser}
        /\ (app.currentPage = "dashboard" /\ ~app.hidden)
              => (ActiveIntervals("liveUpdate") # {} <=> app.status.status = "in")

TypeOK ==
    /\ pc \in {"input", "done", "again", "whatif", "render", "rendered", "timeinfo"}
    /\ Len(bookings) <= Max(MaxLen, MaxStamps)

====
